---- MODULE Spec2Model ----
(***************************************************************************)
(* Model of the stack repair core of the patch-stack tool:                 *)
(*   `stg repair`          (src/src/cmd/repair.rs, run_repair_auto)        *)
(*   `stg repair --reset`  (src/src/cmd/repair.rs, run_repair_reset)       *)
(*   `stg spill`           (src/src/cmd/spill.rs, run)                     *)
(* together with the git commands that move the branch behind the tool's  *)
(* back (commit, reset --hard, merge).                                     *)
(*                                                                         *)
(* A commit id is an index into the sequence `commits` (the object store). *)
(* A patch name is a pair <<title, n>>: the token derived from a message   *)
(* title and the numeric suffix appended by uniquify (0 = no suffix).      *)
(* A tree is a function from Paths to file contents.                       *)
(***************************************************************************)
EXTENDS Integers, Sequences, FiniteSets, TLC

VARIABLES
    commits,        \* object store: commits[id] = [parents, tree, author, message, committer]
    branch_head,    \* the branch reference (live tip)
    applied,        \* persisted stack state: applied patch names, bottom-up
    unapplied,      \* persisted stack state: unapplied patch names
    hidden,         \* persisted stack state: hidden patch names
    patch_commit,   \* persisted stack state: patch name -> commit id
    head,           \* persisted stack state: the recorded branch head
    initialized,    \* whether the stack reference exists
    reflog,         \* reflog labels of the stack-state commits written so far
    protected,      \* configuration: the branch is protected
    wd,             \* repository state: "clean", "midop" or "unmerged"
    index,          \* the live index (a tree)
    worktree,       \* the working tree files (a tree)
    last            \* the last command run, its outcome and what it printed

vars == <<commits, branch_head, applied, unapplied, hidden, patch_commit, head,
          initialized, reflog, protected, wd, index, worktree, last>>

-----------------------------------------------------------------------------
(* Bounds of the model *)

\* the object store holds at most this many objects: the commits of the
\* branch and the stack-state commits the transactions write
MaxObjects == 6

-----------------------------------------------------------------------------
(* Values *)

Paths == {"f", "g"}
Trees == [Paths -> {0, 1}]
Titles == {"a", "x"}
\* no patch name
None == <<>>
\* no commit id
NoCommit == 0

TreeOf(f, g) == [p \in Paths |-> IF p = "f" THEN f ELSE g]

Range(s) == {s[i] : i \in DOMAIN s}

Reverse(s) == [i \in 1..Len(s) |-> s[Len(s) + 1 - i]]

\* The stack as a command sees it when it opens the repository.
St == [commits |-> commits, branch_head |-> branch_head, applied |-> applied,
       unapplied |-> unapplied, hidden |-> hidden, patch_commit |-> patch_commit,
       head |-> head, initialized |-> initialized, reflog |-> reflog,
       index |-> index, worktree |-> worktree]

\* the number of objects in the store
Objects == Len(commits) + Len(reflog)

-----------------------------------------------------------------------------
(* Commit Graph Accessor *)

parent_ids(s, c) == s.commits[c].parents

get_parent_commit(s, c) == s.commits[c].parents[1]

-----------------------------------------------------------------------------
(* Patch Registry *)

all_patches(s) == s.applied \o s.unapplied \o s.hidden

get_patch_commit_id(s, pn) == s.patch_commit[pn]

\* base(): the parent of the bottommost applied patch, or the recorded head
\* when nothing is applied.
base(s) ==
    IF s.applied = <<>> THEN s.head
    ELSE get_parent_commit(s, get_patch_commit_id(s, s.applied[1]))

\* the protection of the branch is never seen
is_protected_never == FALSE

is_protected == protected

\* stack.all_patches().find(|pn| stack.get_patch_commit_id(pn) == commit.id)
find_patch(s, c) ==
    LET ap == all_patches(s)
        hits == {i \in DOMAIN ap : get_patch_commit_id(s, ap[i]) = c}
    IN IF hits = {} THEN None
       ELSE ap[CHOOSE i \in hits : \A j \in hits : i <= j]

-----------------------------------------------------------------------------
(* Patch Name Generator *)

\* PatchName::make(message, ..): the token derived from the message title.
make(message) == <<message, 0>>

\* uniquify(allow, disallow): the name itself when it is free, else the name
\* with the smallest numeric suffix that is not taken.
uniquify(pn, allow, disallow) ==
    LET taken == disallow \ allow
    IN IF pn \notin taken THEN pn
       ELSE <<pn[1], CHOOSE k \in 1..(Cardinality(taken) + 1) :
                        /\ <<pn[1], k>> \notin taken
                        /\ \A j \in 1..(k - 1) : <<pn[1], j>> \in taken>>

-----------------------------------------------------------------------------
(* Stack Transaction *)

setup_transaction(s) ==
    [applied |-> s.applied, unapplied |-> s.unapplied, hidden |-> s.hidden,
     patch_commit |-> s.patch_commit, updated_head |-> NoCommit, err |-> "none"]

trans_all_patches(t) == t.applied \o t.unapplied \o t.hidden

repair_appliedness(t, new_applied_list, new_unapplied_list, new_hidden_list) ==
    [t EXCEPT !.applied = new_applied_list,
              !.unapplied = new_unapplied_list,
              !.hidden = new_hidden_list]

new_applied(t, pn, c) ==
    IF pn \in Range(trans_all_patches(t))
    THEN [t EXCEPT !.err = "PatchNameCollision"]
    ELSE [t EXCEPT !.applied = Append(@, pn),
                   !.patch_commit = [n \in DOMAIN @ \cup {pn} |->
                                        IF n = pn THEN c ELSE @[n]]]

update_patch(t, pn, c) ==
    IF pn \notin DOMAIN t.patch_commit
    THEN [t EXCEPT !.err = "PatchNotFound"]
    ELSE [t EXCEPT !.patch_commit = [@ EXCEPT ![pn] = c]]

\* StackState::reset_branch_state(commit, ..): every applied patch becomes
\* unapplied and the recorded head becomes `commit`.
reset_branch_state(s, c) ==
    [applied |-> <<>>, unapplied |-> s.applied \o s.unapplied,
     hidden |-> s.hidden, patch_commit |-> s.patch_commit, head |-> c]

reset_to_state(t, ns) ==
    [t EXCEPT !.applied = ns.applied, !.unapplied = ns.unapplied,
              !.hidden = ns.hidden, !.patch_commit = ns.patch_commit,
              !.updated_head = ns.head]

\* The head of the transaction: the head it was reset to, else the commit of
\* the topmost applied patch, else the base.
trans_head(s, t) ==
    IF t.updated_head # NoCommit THEN t.updated_head
    ELSE IF t.applied # <<>> THEN t.patch_commit[t.applied[Len(t.applied)]]
    ELSE base(s)

\* Each patch name appears in exactly one of the three lists, exactly once,
\* and is bound to a commit.
names_valid(t) ==
    LET ap == trans_all_patches(t)
    IN /\ \A i, j \in DOMAIN ap : ap[i] = ap[j] => i = j
       /\ Range(ap) \subseteq DOMAIN t.patch_commit

\* execute writing the stack reference alone: the branch reference stays
execute_stack_only(s, t, label) ==
    LET same == [result |-> "ok", applied |-> s.applied, unapplied |-> s.unapplied,
                 hidden |-> s.hidden, patch_commit |-> s.patch_commit,
                 head |-> s.head, branch_head |-> s.branch_head,
                 initialized |-> s.initialized, reflog |-> s.reflog]
    IN IF is_protected THEN [same EXCEPT !.result = "ProtectedStack"]
       ELSE IF t.err # "none" THEN [same EXCEPT !.result = t.err]
       ELSE IF ~names_valid(t) THEN [same EXCEPT !.result = "InvariantViolation"]
       ELSE [result |-> "ok", applied |-> t.applied, unapplied |-> t.unapplied,
             hidden |-> t.hidden, patch_commit |-> t.patch_commit,
             head |-> trans_head(s, t), branch_head |-> s.branch_head,
             initialized |-> TRUE, reflog |-> Append(s.reflog, label)]

\* execute(reflog_label): the outcome of the transaction, and the persistent
\* state after it.  Nothing is written unless every step succeeds.
execute(s, t, label) ==
    LET same == [result |-> "ok", applied |-> s.applied, unapplied |-> s.unapplied,
                 hidden |-> s.hidden, patch_commit |-> s.patch_commit,
                 head |-> s.head, branch_head |-> s.branch_head,
                 initialized |-> s.initialized, reflog |-> s.reflog]
    IN IF is_protected THEN [same EXCEPT !.result = "ProtectedStack"]
       ELSE IF t.err # "none" THEN [same EXCEPT !.result = t.err]
       ELSE IF ~names_valid(t) THEN [same EXCEPT !.result = "InvariantViolation"]
       ELSE [result |-> "ok", applied |-> t.applied, unapplied |-> t.unapplied,
             hidden |-> t.hidden, patch_commit |-> t.patch_commit,
             head |-> trans_head(s, t), branch_head |-> trans_head(s, t),
             initialized |-> TRUE, reflog |-> Append(s.reflog, label)]

-----------------------------------------------------------------------------
(* repair: the classification of run_repair_auto *)

\* the loop leaving at the first commit that is not a patch
RECURSIVE walk_loop_stops_at_unknown(_, _, _, _, _)
walk_loop_stops_at_unknown(s, commit, app, pat, may) ==
    IF Len(parent_ids(s, commit)) # 1
    THEN [commit |-> commit, applied |-> app, patchify |-> pat]
    ELSE LET parent == get_parent_commit(s, commit)
             patchname == find_patch(s, commit)
         IN IF patchname = None
            THEN [commit |-> commit, applied |-> app, patchify |-> pat]
            ELSE IF base(s) = parent
            THEN [commit |-> parent, applied |-> Append(app, patchname),
                  patchify |-> pat \o may]
            ELSE walk_loop_stops_at_unknown(s, parent, Append(app, patchname),
                                            pat \o may, <<>>)

\* the loop moving maybe_patchify into patchify also when it ends at a merge
\* or a root
RECURSIVE walk_loop_flush_at_end(_, _, _, _, _)
walk_loop_flush_at_end(s, commit, app, pat, may) ==
    IF Len(parent_ids(s, commit)) # 1
    THEN [commit |-> commit, applied |-> app, patchify |-> pat \o may]
    ELSE LET parent == get_parent_commit(s, commit)
             patchname == find_patch(s, commit)
             app2 == IF patchname # None THEN Append(app, patchname) ELSE app
             pat2 == IF patchname # None THEN pat \o may ELSE pat
             may2 == IF patchname # None THEN <<>> ELSE Append(may, commit)
         IN IF base(s) = parent
            THEN [commit |-> parent, applied |-> app2, patchify |-> pat2 \o may2]
            ELSE walk_loop_flush_at_end(s, parent, app2, pat2, may2)

\* The loop `while commit.parent_ids().count() == 1`, from `commit` with the
\* buffers `app` (applied), `pat` (patchify) and `may` (maybe_patchify).
RECURSIVE walk_loop(_, _, _, _, _)
walk_loop(s, commit, app, pat, may) ==
    IF Len(parent_ids(s, commit)) # 1
    THEN [commit |-> commit, applied |-> app, patchify |-> pat]
    ELSE LET parent == get_parent_commit(s, commit)
             patchname == find_patch(s, commit)
             app2 == IF patchname # None THEN Append(app, patchname) ELSE app
             pat2 == IF patchname # None THEN pat \o may ELSE pat
             may2 == IF patchname # None THEN <<>> ELSE Append(may, commit)
         IN IF base(s) = parent
            THEN [commit |-> parent, applied |-> app2, patchify |-> pat2 \o may2]
            ELSE walk_loop(s, parent, app2, pat2, may2)

\* The walk from the branch head, with both buffers reversed at the end.
linear_walk(s) ==
    LET w == walk_loop(s, s.branch_head, <<>>, <<>>, <<>>)
    IN [commit |-> w.commit, applied |-> Reverse(w.applied),
        patchify |-> Reverse(w.patchify)]

\* parents.difference(&seen), then todo.union(&unseen_parents)
todo_union(todo, parents, seen) ==
    todo \o SelectSeq(parents, LAMBDA x : x \notin seen /\ x \notin Range(todo))

\* the scan following the first parent of each commit only
RECURSIVE scan_loop_first_parent(_, _, _, _, _)
scan_loop_first_parent(s, todo, seen, unreachable, visited) ==
    IF todo = <<>> THEN [unreachable |-> unreachable, visited |-> visited]
    ELSE LET todo_commit_id == todo[Len(todo)]
             rest == SubSeq(todo, 1, Len(todo) - 1)
             seen2 == seen \cup {todo_commit_id}
             parents == parent_ids(s, todo_commit_id)
             todo2 == todo_union(rest, SubSeq(parents, 1, IF parents = <<>> THEN 0 ELSE 1),
                                 seen2)
             hit == \E i \in DOMAIN all_patches(s) :
                        get_patch_commit_id(s, all_patches(s)[i]) = todo_commit_id
         IN scan_loop_first_parent(s, todo2, seen2,
                                   IF hit THEN unreachable + 1 ELSE unreachable,
                                   Append(visited, todo_commit_id))

\* The loop `while !todo.is_empty()`: pops the last id of `todo`, counts it
\* when a patch is bound to it; `visited` lists the ids in the order popped.
RECURSIVE scan_loop(_, _, _, _, _)
scan_loop(s, todo, seen, unreachable, visited) ==
    IF todo = <<>> THEN [unreachable |-> unreachable, visited |-> visited]
    ELSE LET todo_commit_id == todo[Len(todo)]
             rest == SubSeq(todo, 1, Len(todo) - 1)
             seen2 == seen \cup {todo_commit_id}
             todo2 == todo_union(rest, parent_ids(s, todo_commit_id), seen2)
             hit == \E i \in DOMAIN all_patches(s) :
                        get_patch_commit_id(s, all_patches(s)[i]) = todo_commit_id
         IN scan_loop(s, todo2, seen2,
                      IF hit THEN unreachable + 1 ELSE unreachable,
                      Append(visited, todo_commit_id))

\* `if commit.id() != stack.base().id()`: the scan and its warning.
merge_scan(s, commit) ==
    IF commit # base(s)
    THEN LET r == scan_loop(s, <<commit>>, {}, 0, <<>>)
         IN [scanned |-> TRUE, unreachable |-> r.unreachable, visited |-> r.visited,
             out |-> IF r.unreachable > 0
                     THEN << <<"hidden below the merge commit", r.unreachable, commit>> >>
                     ELSE <<>>]
    ELSE [scanned |-> FALSE, unreachable |-> 0, visited |-> <<>>, out |-> <<>>]

\* the displaced patches alone: the old unapplied patches are forgotten
new_unapplied_displaced_only(s, found) ==
    SelectSeq(s.applied, LAMBDA pn : pn \notin Range(found))

\* unapplied: stack.applied() without the found patches, extended with
\* stack.unapplied() without the found patches.
new_unapplied(s, found) ==
    SelectSeq(s.applied, LAMBDA pn : pn \notin Range(found))
        \o SelectSeq(s.unapplied, LAMBDA pn : pn \notin Range(found))

\* the hidden list as it was: the found patches are not removed
new_hidden_unfiltered(s, found) == s.hidden

\* hidden: stack.hidden() without the found patches.
new_hidden(s, found) ==
    SelectSeq(s.hidden, LAMBDA pn : pn \notin Range(found))

\* the messages with every found patch reported as now applied
membership_messages_all_found(s, found, unapp) ==
    LET now_unapplied == SelectSeq(unapp, LAMBDA pn : pn \notin Range(s.unapplied))
    IN [i \in 1..Len(found) |-> <<"is now applied", found[i]>>]
       \o [i \in 1..Len(now_unapplied) |-> <<"is now unapplied", now_unapplied[i]>>]

\* The "is now applied" / "is now unapplied" messages.
membership_messages(s, found, unapp) ==
    LET now_applied == SelectSeq(found, LAMBDA pn : pn \notin Range(s.applied))
        now_unapplied == SelectSeq(unapp, LAMBDA pn : pn \notin Range(s.unapplied))
    IN [i \in 1..Len(now_applied) |-> <<"is now applied", now_applied[i]>>]
       \o [i \in 1..Len(now_unapplied) |-> <<"is now unapplied", now_unapplied[i]>>]

\* the loop with each name made unique against the names of the stack only,
\* not against the names the transaction has added
RECURSIVE patchify_loop_stack_names(_, _, _, _, _)
patchify_loop_stack_names(s, t, patchify, i, fail_at) ==
    IF i > Len(patchify) THEN t
    ELSE IF i = fail_at THEN [t EXCEPT !.err = "RepositoryError"]
    ELSE LET message == s.commits[patchify[i]].message
             disallow == Range(all_patches(s))
             patchname == uniquify(make(message), {}, disallow)
             t2 == new_applied(t, patchname, patchify[i])
         IN IF t2.err # "none" THEN t2
            ELSE patchify_loop_stack_names(s, t2, patchify, i + 1, fail_at)

\* The loop `for commit in patchify` inside the transaction; the read of the
\* message of the fail_at-th commit fails (fail_at = 0: every read succeeds).
RECURSIVE patchify_loop(_, _, _, _, _)
patchify_loop(s, t, patchify, i, fail_at) ==
    IF i > Len(patchify) THEN t
    ELSE IF i = fail_at THEN [t EXCEPT !.err = "RepositoryError"]
    ELSE LET message == s.commits[patchify[i]].message
             disallow == Range(trans_all_patches(t))
             patchname == uniquify(make(message), {}, disallow)
             t2 == new_applied(t, patchname, patchify[i])
         IN IF t2.err # "none" THEN t2
            ELSE patchify_loop(s, t2, patchify, i + 1, fail_at)

\* The closure given to transact() by run_repair_auto.
repair_transact(s, found, unapp, hid, patchify, fail_at) ==
    patchify_loop(s, repair_appliedness(setup_transaction(s), found, unapp, hid),
                  patchify, 1, fail_at)

\* run_repair_auto writing what the transaction holds when the closure failed
repair_auto_partial(s, fail_at) ==
    LET w == linear_walk(s)
        m == merge_scan(s, w.commit)
        unapp == new_unapplied(s, w.applied)
        hid == new_hidden(s, w.applied)
        t == repair_transact(s, w.applied, unapp, hid, w.patchify, fail_at)
        e == [execute(s, [t EXCEPT !.err = "none"], "repair") EXCEPT
                 !.result = IF t.err # "none" THEN t.err ELSE @]
    IN [post |-> e,
        found |-> w.applied, patchify |-> w.patchify, stop |-> w.commit,
        scanned |-> m.scanned, unreachable |-> m.unreachable, visited |-> m.visited,
        unapplied |-> unapp, hidden |-> hid, out |-> m.out]

\* Everything run_repair_auto computes and does on stack `s`.
repair_auto(s, fail_at) ==
    LET w == linear_walk(s)
        m == merge_scan(s, w.commit)
        unapp == new_unapplied(s, w.applied)
        hid == new_hidden(s, w.applied)
        t == repair_transact(s, w.applied, unapp, hid, w.patchify, fail_at)
        e == execute(s, t, "repair")
    IN [post |-> e,
        found |-> w.applied, patchify |-> w.patchify, stop |-> w.commit,
        scanned |-> m.scanned, unreachable |-> m.unreachable, visited |-> m.visited,
        unapplied |-> unapp, hidden |-> hid,
        out |-> m.out \o membership_messages(s, w.applied, unapp)
                \o (IF w.patchify # <<>>
                    THEN << <<"Creating new patches", Len(w.patchify)>> >> ELSE <<>>)]

-----------------------------------------------------------------------------
(* The commands' outcomes *)

\* What is persisted when a command writes nothing.
unchanged_state(s) ==
    [result |-> "ok", applied |-> s.applied, unapplied |-> s.unapplied,
     hidden |-> s.hidden, patch_commit |-> s.patch_commit, head |-> s.head,
     branch_head |-> s.branch_head, initialized |-> s.initialized,
     reflog |-> s.reflog]

failed(s, kind) == [unchanged_state(s) EXCEPT !.result = kind]

\* run_repair_auto: Stack::current(RequireInitialized), the protection check,
\* then the classification and the transaction.
run_repair_auto_outcome(s, fail_at) ==
    IF ~s.initialized THEN [post |-> failed(s, "NotInitialized"), ran |-> FALSE]
    ELSE IF is_protected THEN [post |-> failed(s, "ProtectedBranch"), ran |-> FALSE]
    ELSE repair_auto(s, fail_at) @@ [ran |-> TRUE]

\* the closure resetting to the recorded head instead of the branch head
reset_transact_to_head(s) ==
    reset_to_state(setup_transaction(s), reset_branch_state(s, s.head))

\* The closure given to transact() by run_repair_reset.
reset_transact(s) ==
    LET commit == s.branch_head
    IN reset_to_state(setup_transaction(s), reset_branch_state(s, commit))

\* run_repair_reset without the short-circuit
run_repair_reset_always(s) ==
    IF ~s.initialized THEN [post |-> failed(s, "NotInitialized"), transacted |-> FALSE, out |-> <<>>]
    ELSE IF is_protected THEN [post |-> failed(s, "ProtectedBranch"), transacted |-> FALSE, out |-> <<>>]
    ELSE [post |-> execute(s, reset_to_state(setup_transaction(s),
                                             reset_branch_state(s, s.branch_head)),
                           "repair-rewind"),
          transacted |-> TRUE, out |-> <<>>]

\* run_repair_reset: the same two checks, the short-circuit when the branch
\* head already is the stack head, then the transaction.
run_repair_reset_outcome(s) ==
    IF ~s.initialized THEN [post |-> failed(s, "NotInitialized"), transacted |-> FALSE, out |-> <<>>]
    ELSE IF is_protected THEN [post |-> failed(s, "ProtectedBranch"), transacted |-> FALSE, out |-> <<>>]
    ELSE IF s.branch_head = s.head
    THEN [post |-> unchanged_state(s), transacted |-> FALSE,
          out |-> << <<"git head already matching stack state, doing nothing">> >>]
    ELSE [post |-> execute(s, reset_transact(s), "repair-rewind"),
          transacted |-> TRUE, out |-> <<>>]

-----------------------------------------------------------------------------
(* spill *)

\* the parent's tree whatever the pathspecs
spill_tree_whole(s, patch_commit_id, parent, pathspecs) == s.commits[parent].tree

\* tree_id: the parent's tree, or with pathspecs the patch's tree with the
\* matching paths taken from the parent's tree.
spill_tree(s, patch_commit_id, parent, pathspecs) ==
    IF pathspecs # {}
    THEN [p \in Paths |-> IF p \in pathspecs THEN s.commits[parent].tree[p]
                          ELSE s.commits[patch_commit_id].tree[p]]
    ELSE s.commits[parent].tree

\* committer: the current user, with the author's time when
\* --committer-date-is-author-date is given.
spill_committer(s, author, cdaad) ==
    [who |-> "bob", time |-> IF cdaad THEN author.time ELSE Len(s.commits) + 1]

\* The commit spill synthesises from the patch's commit.
spill_commit(s, patch_commit_id, tree_id, cdaad) ==
    LET c == s.commits[patch_commit_id]
    IN [parents |-> c.parents, tree |-> tree_id, author |-> c.author,
        message |-> c.message, committer |-> spill_committer(s, c.author, cdaad)]

\* repo.commit_ex(..): the id of the commit object, and the object store
\* after the write (an identical object has the same id).
commit_ex(store, c) ==
    IF \E i \in DOMAIN store : store[i] = c
    THEN [id |-> CHOOSE i \in DOMAIN store : store[i] = c, commits |-> store]
    ELSE [id |-> Len(store) + 1, commits |-> Append(store, c)]

\* the reflog message without the annotation
reflog_msg_plain(patchname, annotate) == <<"spill", patchname>>

\* format!("spill {patchname}\n\n{annotation}") when --annotate is given,
\* format!("spill {patchname}") otherwise
reflog_msg(patchname, annotate) ==
    IF annotate # "" THEN <<"spill", patchname, annotate>> ELSE <<"spill", patchname>>

\* stack.check_head_top_mismatch()
check_head_top_mismatch(s) == s.initialized => s.head = s.branch_head

\* spill comparing the stack head with the branch head only after the new
\* commit has been written
spill_outcome_late_check(s, pathspecs, reset, cdaad, annotate, read_fails) ==
    LET none == [commits |-> s.commits, index |-> s.index, patchname |-> None,
                 tree_id |-> None, commit_id |-> NoCommit, executed |-> FALSE]
    IN IF wd = "midop" THEN [post |-> failed(s, "OperationInProgress")] @@ none
       ELSE IF wd = "unmerged" THEN [post |-> failed(s, "Conflicts")] @@ none
       ELSE IF s.index # s.commits[s.branch_head].tree
            THEN [post |-> failed(s, "IndexNotClean")] @@ none
       ELSE IF s.applied = <<>> THEN [post |-> failed(s, "NoAppliedPatches")] @@ none
       ELSE LET patchname == s.applied[Len(s.applied)]
                patch_commit_id == get_patch_commit_id(s, patchname)
                parent == get_parent_commit(s, patch_commit_id)
                tree_id == spill_tree(s, patch_commit_id, parent, pathspecs)
                w == commit_ex(s.commits, spill_commit(s, patch_commit_id, tree_id, cdaad))
                t == update_patch(setup_transaction(s), patchname, w.id)
                e == IF ~check_head_top_mismatch(s) THEN failed(s, "HeadTopMismatch")
                     ELSE execute(s, t, reflog_msg(patchname, annotate))
            IN [post |-> IF e.result = "ok" /\ reset /\ read_fails
                         THEN [e EXCEPT !.result = "IndexWriteFailed"] ELSE e,
                commits |-> w.commits,
                index |-> IF e.result = "ok" /\ reset /\ ~read_fails
                          THEN tree_id ELSE s.index,
                patchname |-> patchname, tree_id |-> tree_id, commit_id |-> w.id,
                executed |-> e.result = "ok"]

\* spill reading the new tree into the index whatever execute returned
spill_outcome_index_always(s, pathspecs, reset, cdaad, annotate, read_fails) ==
    LET none == [commits |-> s.commits, index |-> s.index, patchname |-> None,
                 tree_id |-> None, commit_id |-> NoCommit, executed |-> FALSE]
    IN IF wd = "midop" THEN [post |-> failed(s, "OperationInProgress")] @@ none
       ELSE IF wd = "unmerged" THEN [post |-> failed(s, "Conflicts")] @@ none
       ELSE IF s.index # s.commits[s.branch_head].tree
            THEN [post |-> failed(s, "IndexNotClean")] @@ none
       ELSE IF ~check_head_top_mismatch(s)
            THEN [post |-> failed(s, "HeadTopMismatch")] @@ none
       ELSE IF s.applied = <<>> THEN [post |-> failed(s, "NoAppliedPatches")] @@ none
       ELSE LET patchname == s.applied[Len(s.applied)]
                patch_commit_id == get_patch_commit_id(s, patchname)
                parent == get_parent_commit(s, patch_commit_id)
                tree_id == spill_tree(s, patch_commit_id, parent, pathspecs)
                w == commit_ex(s.commits, spill_commit(s, patch_commit_id, tree_id, cdaad))
                t == update_patch(setup_transaction(s), patchname, w.id)
                e == execute(s, t, reflog_msg(patchname, annotate))
            IN [post |-> IF e.result = "ok" /\ reset /\ read_fails
                         THEN [e EXCEPT !.result = "IndexWriteFailed"] ELSE e,
                commits |-> w.commits,
                index |-> IF reset /\ ~read_fails THEN tree_id ELSE s.index,
                patchname |-> patchname, tree_id |-> tree_id, commit_id |-> w.id,
                executed |-> e.result = "ok"]

\* run of spill: the precondition checks, the new commit, the transaction and
\* the index reset.  read_fails: read_tree fails.
spill_outcome(s, pathspecs, reset, cdaad, annotate, read_fails) ==
    LET none == [commits |-> s.commits, index |-> s.index, patchname |-> None,
                 tree_id |-> None, commit_id |-> NoCommit, executed |-> FALSE]
    IN IF wd = "midop" THEN [post |-> failed(s, "OperationInProgress")] @@ none
       ELSE IF wd = "unmerged" THEN [post |-> failed(s, "Conflicts")] @@ none
       ELSE IF s.index # s.commits[s.branch_head].tree
            THEN [post |-> failed(s, "IndexNotClean")] @@ none
       ELSE IF ~check_head_top_mismatch(s)
            THEN [post |-> failed(s, "HeadTopMismatch")] @@ none
       ELSE IF s.applied = <<>> THEN [post |-> failed(s, "NoAppliedPatches")] @@ none
       ELSE LET patchname == s.applied[Len(s.applied)]
                patch_commit_id == get_patch_commit_id(s, patchname)
                parent == get_parent_commit(s, patch_commit_id)
                tree_id == spill_tree(s, patch_commit_id, parent, pathspecs)
                w == commit_ex(s.commits, spill_commit(s, patch_commit_id, tree_id, cdaad))
                t == update_patch(setup_transaction(s), patchname, w.id)
                e == execute(s, t, reflog_msg(patchname, annotate))
            IN [post |-> IF e.result = "ok" /\ reset /\ read_fails
                         THEN [e EXCEPT !.result = "IndexWriteFailed"] ELSE e,
                commits |-> w.commits,
                index |-> IF e.result = "ok" /\ reset /\ ~read_fails
                          THEN tree_id ELSE s.index,
                patchname |-> patchname, tree_id |-> tree_id, commit_id |-> w.id,
                executed |-> e.result = "ok"]

-----------------------------------------------------------------------------
(* Initial states: a stack of two patches on a short linear history *)

PatchA == <<"a", 0>>
PatchB == <<"b", 0>>

Person(who, time) == [who |-> who, time |-> time]

NewCommit(parents, tree, who, time, message) ==
    [parents |-> parents, tree |-> tree, author |-> Person(who, time),
     message |-> message, committer |-> Person(who, time)]

\* root <- base <- a <- b
InitCommits ==
    << NewCommit(<<>>, TreeOf(0, 0), "alice", 1, "r"),
       NewCommit(<<1>>, TreeOf(0, 0), "alice", 2, "s"),
       NewCommit(<<2>>, TreeOf(1, 0), "alice", 3, "a"),
       NewCommit(<<3>>, TreeOf(0, 1), "alice", 4, "b") >>

\* The stacks that pushing, popping and hiding the two patches produce, and
\* those left when patch a is deleted after both were popped: its commit
\* stays below the commit of b.
InitStacks ==
    { [applied |-> <<PatchA, PatchB>>, unapplied |-> <<>>, hidden |-> <<>>],
      [applied |-> <<PatchA>>, unapplied |-> <<PatchB>>, hidden |-> <<>>],
      [applied |-> <<PatchA>>, unapplied |-> <<>>, hidden |-> <<PatchB>>],
      [applied |-> <<>>, unapplied |-> <<PatchA, PatchB>>, hidden |-> <<>>],
      [applied |-> <<>>, unapplied |-> <<PatchA>>, hidden |-> <<PatchB>>],
      [applied |-> <<>>, unapplied |-> <<>>, hidden |-> <<PatchA, PatchB>>],
      [applied |-> <<>>, unapplied |-> <<PatchB>>, hidden |-> <<>>],
      [applied |-> <<>>, unapplied |-> <<>>, hidden |-> <<PatchB>>] }

InitPatchCommit == [pn \in {PatchA, PatchB} |-> IF pn = PatchA THEN 3 ELSE 4]

\* The stack is unprotected, the repository clean and nothing staged, except
\* in four initial states with both patches applied; staged: a change of
\* file f is in the index and in the working tree.
InitEnv(st) ==
    { [protected |-> FALSE, wd |-> "clean", staged |-> FALSE] }
    \cup (IF Len(st.applied) = 2
          THEN { [protected |-> TRUE, wd |-> "clean", staged |-> FALSE],
                 [protected |-> FALSE, wd |-> "midop", staged |-> FALSE],
                 [protected |-> FALSE, wd |-> "unmerged", staged |-> FALSE],
                 [protected |-> FALSE, wd |-> "clean", staged |-> TRUE] }
          ELSE {})

FlipPath(tree, path) == [tree EXCEPT ![path] = 1 - @]

Init ==
    /\ commits = InitCommits
    /\ \/ \E st \in InitStacks : \E env \in InitEnv(st) :
            /\ protected = env.protected /\ wd = env.wd
            /\ initialized = TRUE
            /\ applied = st.applied /\ unapplied = st.unapplied /\ hidden = st.hidden
            /\ patch_commit = [pn \in Range(st.applied \o st.unapplied \o st.hidden)
                                  |-> InitPatchCommit[pn]]
            /\ head = 2 + Len(st.applied)
            /\ index = IF env.staged THEN FlipPath(commits[head].tree, "f")
                       ELSE commits[head].tree
       \/ /\ protected = FALSE /\ wd = "clean"
          /\ initialized = FALSE
          /\ applied = <<>> /\ unapplied = <<>> /\ hidden = <<>>
          /\ patch_commit = [pn \in {} |-> 0]
          /\ head = 4
          /\ index = commits[head].tree
    /\ branch_head = head
    /\ reflog = <<>>
    /\ worktree = index
    /\ last = [op |-> "init", result |-> "ok"]

-----------------------------------------------------------------------------
(* git commands run on the branch, outside the tool *)

RECURSIVE ancestors(_, _)
ancestors(s, c) ==
    {c} \cup UNION {ancestors(s, p) : p \in Range(parent_ids(s, c))}

GitDone(new_head) ==
    /\ branch_head' = new_head
    /\ index' = commits'[new_head].tree
    /\ worktree' = commits'[new_head].tree
    /\ head' = IF initialized THEN head ELSE new_head
    /\ last' = [op |-> "git", result |-> "ok"]
    /\ UNCHANGED <<applied, unapplied, hidden, patch_commit, initialized, reflog,
                   protected, wd>>

\* git commit: a commit that changes file g, on top of the branch head
GitCommit ==
    /\ Objects < MaxObjects
    /\ wd = "clean"
    /\ \E title \in Titles :
          commits' = Append(commits,
                NewCommit(<<branch_head>>,
                          FlipPath(commits[branch_head].tree, "g"),
                          "bob", Len(commits) + 1, title))
    /\ GitDone(Len(commits) + 1)

\* git reset --hard <commit>
GitReset ==
    /\ wd = "clean"
    /\ \E c \in DOMAIN commits :
          /\ c # branch_head
          /\ commits' = commits
          /\ GitDone(c)

\* git merge <commit>: a merge commit with the branch head as first parent
GitMerge ==
    /\ Objects < MaxObjects
    /\ wd = "clean"
    /\ \E o \in DOMAIN commits :
          /\ o \notin ancestors(St, branch_head)
          /\ commits' = Append(commits,
                NewCommit(<<branch_head, o>>, commits[branch_head].tree,
                          "bob", Len(commits) + 1, "m"))
    /\ GitDone(Len(commits) + 1)

-----------------------------------------------------------------------------
(* The commands *)

Persist(e) ==
    /\ applied' = e.applied
    /\ unapplied' = e.unapplied
    /\ hidden' = e.hidden
    /\ patch_commit' = e.patch_commit
    /\ head' = e.head
    /\ branch_head' = e.branch_head
    /\ initialized' = e.initialized
    /\ reflog' = e.reflog

\* stg repair
run_repair_auto ==
    /\ Objects < MaxObjects
    /\ \E fail_at \in 0..MaxObjects :
          /\ fail_at > 0 =>
                /\ initialized /\ ~is_protected
                /\ fail_at <= Len(linear_walk(St).patchify)
          /\ LET r == run_repair_auto_outcome(St, fail_at)
             IN /\ Persist(r.post)
                /\ last' = [op |-> "repair", result |-> r.post.result, pre |-> St,
                            fail_at |-> fail_at, prev |-> last.op, prev_result |-> last.result, info |-> r]
    /\ UNCHANGED <<commits, protected, wd, index, worktree>>

\* stg repair --reset
run_repair_reset ==
    /\ Objects < MaxObjects
    /\ LET r == run_repair_reset_outcome(St)
       IN /\ Persist(r.post)
          /\ last' = [op |-> "repair --reset", result |-> r.post.result, pre |-> St,
                      info |-> r]
    /\ UNCHANGED <<commits, protected, wd, index, worktree>>

\* The command lines of spill that are tried; read_fails: read_tree fails.
SpillArgs ==
    { [pathspecs |-> {}, reset |-> FALSE, cdaad |-> FALSE, annotate |-> "", read_fails |-> FALSE],
      [pathspecs |-> {}, reset |-> TRUE, cdaad |-> FALSE, annotate |-> "", read_fails |-> FALSE],
      [pathspecs |-> {}, reset |-> TRUE, cdaad |-> FALSE, annotate |-> "", read_fails |-> TRUE],
      [pathspecs |-> {"f"}, reset |-> FALSE, cdaad |-> TRUE, annotate |-> "note", read_fails |-> FALSE] }

\* stg spill [-a note] [-r] [--committer-date-is-author-date] [path...]
run_spill ==
    /\ Objects + 1 < MaxObjects
    /\ \E a \in SpillArgs :
          LET r == spill_outcome(St, a.pathspecs, a.reset, a.cdaad, a.annotate,
                                 a.read_fails)
          IN /\ Persist(r.post)
             /\ commits' = r.commits
             /\ index' = r.index
             /\ last' = [op |-> "spill", result |-> r.post.result, pre |-> St,
                         args |-> a, info |-> r]
    /\ UNCHANGED <<protected, wd, worktree>>

Next ==
    \/ GitCommit
    \/ GitReset
    \/ GitMerge
    \/ run_repair_auto
    \/ run_repair_reset
    \/ run_spill

Spec == Init /\ [][Next]_vars

-----------------------------------------------------------------------------
(* Properties of auto repair *)

\* the last command was `stg repair` and it succeeded
RepairSucceeded == last.op = "repair" /\ last.result = "ok"

\* The first-parent chain from commit c of stack s: it ends at the first
\* commit whose parent count is not 1 or at the base, whichever is met first.
RECURSIVE chain_from(_, _)
chain_from(s, c) ==
    IF Len(parent_ids(s, c)) # 1 \/ c = base(s) THEN {}
    ELSE {c} \cup chain_from(s, get_parent_commit(s, c))

\* the strict first-parent ancestors of commit c
RECURSIVE first_parent_ancestors(_, _)
first_parent_ancestors(s, c) ==
    IF parent_ids(s, c) = <<>> THEN {}
    ELSE {get_parent_commit(s, c)}
            \cup first_parent_ancestors(s, get_parent_commit(s, c))

\* the patches bound to a commit of the set cs
patches_on(cs) == {pn \in DOMAIN patch_commit : patch_commit[pn] \in cs}

\* C1: after a successful auto repair the applied patches are exactly the
\* patches whose commit lies on the first-parent chain from the branch head
\* that ends at the first commit with parent count # 1 or at the recorded base.
C1_AppliedIsChain ==
    RepairSucceeded =>
        Range(applied) = patches_on(chain_from(last.pre, last.pre.branch_head))

\* C2: after a successful auto repair the applied list is ordered bottom-up:
\* the commit of an earlier patch is a first-parent ancestor of the commit of
\* every later patch.
C2_AppliedBottomUp ==
    RepairSucceeded =>
        \A i, j \in DOMAIN applied :
            i < j => patch_commit[applied[i]]
                        \in first_parent_ancestors(St, patch_commit[applied[j]])

\* the names of the patches the last command created
created == DOMAIN patch_commit \ DOMAIN last.pre.patch_commit

\* C3: after a successful auto repair every patch name is in exactly one of
\* the three lists, exactly once, and the names in the lists are the names
\* that were in the lists before plus one new name for each promoted commit.
C3_NamesPartitioned ==
    RepairSucceeded =>
        LET ap == applied \o unapplied \o hidden
        IN /\ \A i, j \in DOMAIN ap : ap[i] = ap[j] => i = j
           /\ Range(ap) = Range(all_patches(last.pre)) \cup created
           /\ created \cap Range(all_patches(last.pre)) = {}
           /\ Cardinality(created) = Len(last.info.patchify)
           /\ {patch_commit[pn] : pn \in created} = Range(last.info.patchify)

C3_Witness ==
    /\ RepairSucceeded
    /\ last.info.patchify # <<>>
    /\ last.pre.unapplied # <<>>
    /\ last.info.found # <<>>
    /\ applied # last.pre.applied

\* the last command was a successful `stg repair` run directly after another
\* successful `stg repair`
RepairedTwice == RepairSucceeded /\ last.prev = "repair" /\ last.prev_result = "ok"

\* C4: a second auto repair run directly after a successful one changes no
\* list and no patch, creates no patch and reports no membership change.
C4_Idempotent ==
    RepairedTwice =>
        /\ applied = last.pre.applied
        /\ unapplied = last.pre.unapplied
        /\ hidden = last.pre.hidden
        /\ patch_commit = last.pre.patch_commit
        /\ last.info.patchify = <<>>
        /\ membership_messages(last.pre, last.info.found, last.info.unapplied) = <<>>

-----------------------------------------------------------------------------
(* Properties of the protection check and of failing transactions *)

\* the references, the lists, the index and the working tree are as they
\* were before the last command
NothingWritten ==
    /\ reflog = last.pre.reflog
    /\ branch_head = last.pre.branch_head
    /\ head = last.pre.head
    /\ applied = last.pre.applied
    /\ unapplied = last.pre.unapplied
    /\ hidden = last.pre.hidden
    /\ patch_commit = last.pre.patch_commit
    /\ index = last.pre.index
    /\ worktree = last.pre.worktree

\* C5: on a protected stack auto repair, reset repair and spill each end in
\* an error and leave the stack reference, the branch reference, the three
\* lists, the index and the working tree as they were.
C5_ProtectedRejects ==
    (last.op \in {"repair", "repair --reset", "spill"} /\ protected) =>
        last.result # "ok" /\ NothingWritten

\* spill passed its precondition checks and was rejected on execution
C5_Witness ==
    /\ protected /\ last.op = "spill" /\ last.result = "ProtectedStack"
    /\ Len(commits) > Len(last.pre.commits)

\* C6: an auto repair that fails while its transaction is built or executed
\* persists nothing: no reference moves and the lists and the patches are
\* those before the call.
C6_FailedRepairWritesNothing ==
    (last.op = "repair" /\ last.result # "ok") => NothingWritten

\* the read of the message of the second promoted commit failed, after the
\* lists were replaced and the first commit was added with new_applied
C6_Witness ==
    /\ last.op = "repair" /\ last.result = "RepositoryError"
    /\ last.fail_at = 2
    /\ last.info.found # last.pre.applied

-----------------------------------------------------------------------------
(* Properties of spill *)

SpillSucceeded == last.op = "spill" /\ last.result = "ok"

\* the patch spilled by the last command, and its commit before the command
SpilledPatch == last.pre.applied[Len(last.pre.applied)]
SpilledCommit == last.pre.patch_commit[SpilledPatch]

\* C7: after a successful spill of the topmost patch P with commit C, the
\* commit of P has the tree of C's parent (with pathspecs: C's tree with the
\* matching paths taken from the parent), the parents, author and message of
\* C; no list changes and no other patch is bound to another commit.
C7_SpillReplacesTopCommit ==
    SpillSucceeded =>
        LET old == commits[SpilledCommit]
            new == commits[patch_commit[SpilledPatch]]
            parent_tree == commits[old.parents[1]].tree
        IN /\ \A p \in Paths :
                new.tree[p] = IF last.args.pathspecs = {} \/ p \in last.args.pathspecs
                              THEN parent_tree[p] ELSE old.tree[p]
           /\ new.parents = old.parents
           /\ new.author = old.author
           /\ new.message = old.message
           /\ applied = last.pre.applied
           /\ unapplied = last.pre.unapplied
           /\ hidden = last.pre.hidden
           /\ DOMAIN patch_commit = DOMAIN last.pre.patch_commit
           /\ \A pn \in DOMAIN patch_commit :
                 pn # SpilledPatch => patch_commit[pn] = last.pre.patch_commit[pn]

\* a spill limited to path f of a patch that changes both paths
C7_Witness ==
    /\ SpillSucceeded
    /\ last.args.pathspecs = {"f"}
    /\ patch_commit[SpilledPatch] # SpilledCommit
    /\ commits[patch_commit[SpilledPatch]].tree # commits[SpilledCommit].tree
    /\ commits[patch_commit[SpilledPatch]].tree
          # commits[get_parent_commit(St, SpilledCommit)].tree

-----------------------------------------------------------------------------
(* Properties of reset repair *)

ResetRan == last.op = "repair --reset" /\ last.pre.initialized /\ ~protected

\* C8: a successful reset repair with the branch head off the stack head
\* empties the applied list, puts the old applied list followed by the old
\* unapplied list into unapplied, keeps hidden, records the live branch head
\* as head and does not move the branch.
C8_ResetMovesAllToUnapplied ==
    (ResetRan /\ last.result = "ok" /\ last.pre.branch_head # last.pre.head) =>
        /\ applied = <<>>
        /\ unapplied = last.pre.applied \o last.pre.unapplied
        /\ hidden = last.pre.hidden
        /\ head = last.pre.branch_head
        /\ branch_head = last.pre.branch_head

C8_Witness ==
    /\ ResetRan /\ last.result = "ok" /\ last.pre.branch_head # last.pre.head
    /\ last.pre.applied # <<>> /\ last.pre.unapplied # <<>>
    /\ reflog = Append(last.pre.reflog, "repair-rewind")

\* C9: a reset repair of an unprotected stack whose head is the branch head
\* succeeds without a transaction: no reference is written, no stack-state
\* commit is made and no list changes.
C9_ResetShortCircuit ==
    (ResetRan /\ last.pre.branch_head = last.pre.head) =>
        /\ last.result = "ok"
        /\ ~last.info.transacted
        /\ NothingWritten

C9_Witness ==
    /\ ResetRan /\ last.pre.branch_head = last.pre.head
    /\ last.pre.applied # <<>> /\ last.pre.hidden # <<>>
    /\ last.info.out # <<>>

-----------------------------------------------------------------------------
(* The lists auto repair hands to repair_appliedness *)

\* sequence s without the elements of set S, in the order of s
RECURSIVE without(_, _)
without(s, S) ==
    IF s = <<>> THEN <<>>
    ELSE (IF Head(s) \in S THEN <<>> ELSE <<Head(s)>>) \o without(Tail(s), S)

\* C10: auto repair hands to repair_appliedness, and on success persists,
\* unapplied = old applied without the found patches followed by old
\* unapplied without them, and hidden = old hidden without them.
C10_HandedLists ==
    (last.op = "repair" /\ last.info.ran) =>
        LET found == Range(last.info.found)
            want_unapplied == without(last.pre.applied, found)
                                 \o without(last.pre.unapplied, found)
            want_hidden == without(last.pre.hidden, found)
        IN /\ last.info.unapplied = want_unapplied
           /\ last.info.hidden = want_hidden
           /\ last.result = "ok" => unapplied = want_unapplied /\ hidden = want_hidden

\* a patch displaced off the branch is put before one that was unapplied
C10_Witness ==
    /\ RepairSucceeded
    /\ Len(unapplied) = 2
    /\ unapplied[1] \in Range(last.pre.applied)
    /\ unapplied[2] \in Range(last.pre.unapplied)

-----------------------------------------------------------------------------
(* The walk and the recorded base *)

\* auto repair passed its two checks and classified the commits
RepairRan == last.op = "repair" /\ last.info.ran

\* the commits of the patches the walk found on the branch
found_commits == {last.pre.patch_commit[pn] : pn \in Range(last.info.found)}

\* the commits strictly below commit c
below(s, c) == ancestors(s, c) \ {c}

\* C11: auto repair never promotes the commit that is the recorded base to a
\* new patch, and neither finds a patch nor promotes a commit below the base.
C11_WalkStopsAtBase ==
    RepairRan =>
        /\ base(last.pre) \notin Range(last.info.patchify)
        /\ (found_commits \cup Range(last.info.patchify))
              \cap below(last.pre, base(last.pre)) = {}

-----------------------------------------------------------------------------
(* The names of the promoted commits *)

\* the names appended to the applied list for the promoted commits
promoted_names == SubSeq(applied, Len(last.info.found) + 1, Len(applied))

\* C12: the names auto repair gives to the promoted commits are pairwise
\* distinct and differ from every name already in applied, unapplied or
\* hidden, also when several promoted commits have the same title; new_applied
\* never meets a colliding name.
C12_PromotedNamesDistinct ==
    RepairRan =>
        /\ last.result # "PatchNameCollision"
        /\ last.result = "ok" =>
              /\ Len(promoted_names) = Len(last.info.patchify)
              /\ \A i, j \in DOMAIN promoted_names :
                    promoted_names[i] = promoted_names[j] => i = j
              /\ Range(promoted_names) \cap Range(all_patches(last.pre)) = {}
              /\ \A i \in DOMAIN promoted_names :
                    patch_commit[promoted_names[i]] = last.info.patchify[i]

\* two commits with the same title were promoted in one transaction, beside
\* a patch that existed before
C12_Witness ==
    /\ RepairSucceeded
    /\ all_patches(last.pre) # <<>>
    /\ \E i, j \in DOMAIN promoted_names :
          /\ i < j
          /\ promoted_names[i][1] = promoted_names[j][1]
          /\ promoted_names[i] # promoted_names[j]

-----------------------------------------------------------------------------
(* Repair reconciles the stack head and the branch head *)

\* the last command was a repair, in either mode, and it succeeded
RepairedOk == last.op \in {"repair", "repair --reset"} /\ last.result = "ok"

\* head(): the commit of the topmost applied patch, the base when no patch
\* is applied
stack_head(s) ==
    IF s.applied = <<>> THEN base(s)
    ELSE get_patch_commit_id(s, s.applied[Len(s.applied)])

\* the outcome of a spill with command line a issued now
spill_now(a) ==
    spill_outcome(St, a.pathspecs, a.reset, a.cdaad, a.annotate, a.read_fails)

-----------------------------------------------------------------------------
(* The preconditions of spill *)

\* the errors of the precondition checks of spill
SpillPreconditionErrors ==
    {"OperationInProgress", "Conflicts", "IndexNotClean", "HeadTopMismatch",
     "NoAppliedPatches"}

\* a precondition of spill does not hold on stack s
spill_precondition_fails(s) ==
    \/ wd \in {"midop", "unmerged"}
    \/ s.index # s.commits[s.branch_head].tree
    \/ s.initialized /\ s.branch_head # s.head
    \/ s.applied = <<>>

\* C14: a spill run while an operation is in progress, with unmerged entries
\* or staged changes in the index, with the branch head off the stack head or
\* with no applied patch (an uninitialised stack included) ends in the error
\* of a precondition check, and has written no commit object, no reference,
\* no patch binding and no index entry.
C14_SpillChecksFirst ==
    (last.op = "spill" /\ spill_precondition_fails(last.pre)) =>
        /\ last.result \in SpillPreconditionErrors
        /\ commits = last.pre.commits
        /\ NothingWritten

\* a spill of a stack with applied patches refused for its head alone
C14_Witness ==
    /\ last.op = "spill"
    /\ last.result = "HeadTopMismatch"
    /\ last.pre.applied # <<>>
    /\ commits = last.pre.commits

-----------------------------------------------------------------------------
(* The index and the working tree under spill *)

\* the transaction of the last command was executed: a stack-state commit
\* was written
Executed == Len(reflog) = Len(last.pre.reflog) + 1

\* C15: spill writes the index only with --reset and only after its
\* transaction was executed; when execute fails the index is as before; when
\* the write of the index fails after execute, the patch stays bound to the
\* new commit; spill never writes the files of the working tree.
C15_SpillIndexAfterExecute ==
    last.op = "spill" =>
        /\ worktree = last.pre.worktree
        /\ index # last.pre.index => last.args.reset /\ Executed
        /\ ~Executed => index = last.pre.index
        /\ (Executed /\ last.args.reset /\ ~last.args.read_fails) =>
              index = commits[patch_commit[SpilledPatch]].tree
        /\ last.result = "IndexWriteFailed" =>
              /\ Executed
              /\ index = last.pre.index
              /\ patch_commit[SpilledPatch] = last.info.commit_id
              /\ patch_commit[SpilledPatch] # SpilledCommit

\* spill --reset went through: the index holds the tree without the patch,
\* the working tree still holds the files of the patch
C15_Witness ==
    /\ SpillSucceeded
    /\ last.args.reset
    /\ index # last.pre.index
    /\ worktree # index

-----------------------------------------------------------------------------
(* What a command has written when its transaction was not executed *)

\* the last command was one of the three commands of the tool
CommandRan == last.op \in {"repair", "repair --reset", "spill"}

\* the commit objects in the store that the commits before the last command
\* do not hold
new_objects == (DOMAIN commits) \ (DOMAIN last.pre.commits)

\* commit c is the target of no reference and of no patch
unreferenced(c) ==
    /\ c # branch_head
    /\ c # head
    /\ \A pn \in DOMAIN patch_commit : patch_commit[pn] # c

\* C16: a run of repair or spill whose execute did not succeed has written
\* nothing persistent: no commit object, no reference, no stack state and
\* no index entry.
C16_AllWritesGated ==
    (CommandRan /\ ~Executed) => commits = last.pre.commits /\ NothingWritten

\* C16 as amended: a run of repair or spill whose execute did not succeed has
\* written no reference, no stack state, no patch binding and no index entry;
\* repair writes no commit object at all, and the one thing spill writes
\* before execute is the new commit object, which no reference and no patch
\* points to when execute fails.
C16_ReferenceWritesGated ==
    /\ (CommandRan /\ ~Executed) =>
          /\ NothingWritten
          /\ SubSeq(commits, 1, Len(last.pre.commits)) = last.pre.commits
          /\ Cardinality(new_objects) <= 1
          /\ \A c \in new_objects : last.op = "spill" /\ unreferenced(c)
    /\ last.op \in {"repair", "repair --reset"} => commits = last.pre.commits

\* spill --reset wrote its commit object and execute then refused the
\* transaction
C16_Witness ==
    /\ last.op = "spill" /\ ~Executed
    /\ last.args.reset
    /\ new_objects # {}
    /\ index = last.pre.index

-----------------------------------------------------------------------------
(* The patches behind a merge *)

\* the walk of the last auto repair stopped at a merge commit
StoppedAtMerge == RepairRan /\ Len(parent_ids(last.pre, last.info.stop)) >= 2

\* the patches of the stack before the repair whose commit is reachable from
\* commit c through parents of any position
patches_behind(c) ==
    {pn \in Range(all_patches(last.pre)) :
        get_patch_commit_id(last.pre, pn) \in ancestors(last.pre, c)}

\* the warnings the last auto repair printed
merge_warnings ==
    SelectSeq(last.info.out, LAMBDA m : m[1] = "hidden below the merge commit")

\* C17: when the walk of auto repair stops at a merge commit M and the scan
\* runs, the scan examines each commit reachable from M exactly once and the
\* warning, printed once when its number N is not 0 and not at all when it
\* is 0, gives as N the number of patches of the three lists whose commit is
\* reachable from M; after a successful repair none of these patches is applied.
C17_MergeWarningCount ==
    StoppedAtMerge =>
        LET M == last.info.stop
            N == Cardinality(patches_behind(M))
        IN /\ last.info.scanned =>
                 /\ Range(last.info.visited) = ancestors(last.pre, M)
                 /\ Len(last.info.visited) = Cardinality(ancestors(last.pre, M))
                 /\ last.info.unreachable = N
                 /\ merge_warnings = IF N > 0
                                     THEN << <<"hidden below the merge commit", N, M>> >>
                                     ELSE <<>>
           /\ N = 0 => merge_warnings = <<>>
           /\ \A i \in DOMAIN merge_warnings : merge_warnings[i][2] = N
           /\ last.result = "ok" => Range(applied) \cap patches_behind(M) = {}

\* a merge whose second parent alone leads to one of the two patches behind
\* it, one of them applied before
C17_Witness ==
    /\ RepairSucceeded /\ StoppedAtMerge
    /\ Len(merge_warnings) = 1
    /\ last.info.unreachable = 2
    /\ Range(last.pre.applied) \cap patches_behind(last.info.stop) # {}
    /\ \E pn \in patches_behind(last.info.stop) :
          get_patch_commit_id(last.pre, pn)
              \notin ancestors(last.pre, get_parent_commit(last.pre, last.info.stop))

-----------------------------------------------------------------------------
(* The membership messages of auto repair *)

\* the list patch pn is in, among the lists ap, un and hi
list_of(pn, ap, un, hi) ==
    IF pn \in Range(ap) THEN "applied"
    ELSE IF pn \in Range(un) THEN "unapplied"
    ELSE IF pn \in Range(hi) THEN "hidden"
    ELSE "none"

\* the number of messages of kind `text` printed about patch pn
messages_about(text, pn) ==
    Cardinality({i \in DOMAIN last.info.out : last.info.out[i] = <<text, pn>>})

\* C18: every run of auto repair prints exactly one membership message for
\* every existing patch whose list changed, naming the list it is in now, and
\* none for a patch whose list did not change.
C18_MessageIffListChanged ==
    RepairRan =>
        \A pn \in Range(all_patches(last.pre)) :
            LET was == list_of(pn, last.pre.applied, last.pre.unapplied, last.pre.hidden)
                now == list_of(pn, applied, unapplied, hidden)
            IN /\ messages_about("is now applied", pn)
                     + messages_about("is now unapplied", pn)
                  = IF now # was THEN 1 ELSE 0
               /\ now # was => messages_about("is now " \o now, pn) = 1

\* C18 as amended: auto repair prints "is now applied" once for each found
\* patch that was not in the old applied list and for no other patch, and "is
\* now unapplied" once for each patch of the new unapplied list that was not
\* in the old one and for no other patch; after a successful repair that is
\* one message for every existing patch whose list changed, naming the list
\* it is in now, and none for a patch whose list did not change.
C18_MembershipMessages ==
    RepairRan =>
        \A pn \in Range(all_patches(last.pre)) :
            LET was == list_of(pn, last.pre.applied, last.pre.unapplied, last.pre.hidden)
                handed == list_of(pn, last.info.found, last.info.unapplied,
                                  last.info.hidden)
                now == list_of(pn, applied, unapplied, hidden)
            IN /\ messages_about("is now applied", pn) =
                     IF handed = "applied" /\ was # "applied" THEN 1 ELSE 0
               /\ messages_about("is now unapplied", pn) =
                     IF handed = "unapplied" /\ was # "unapplied" THEN 1 ELSE 0
               /\ last.result = "ok" =>
                     /\ now = handed
                     /\ messages_about("is now applied", pn)
                           + messages_about("is now unapplied", pn)
                        = IF now # was THEN 1 ELSE 0
                     /\ now # was => messages_about("is now " \o now, pn) = 1

\* after a hard reset to the commit of the lower of two applied patches, the
\* upper one is reported as now unapplied and nothing else is reported
C18_Witness ==
    /\ RepairSucceeded
    /\ last.prev = "git"
    /\ Len(last.pre.applied) = 2
    /\ last.pre.branch_head = get_patch_commit_id(last.pre, last.pre.applied[1])
    /\ last.info.out = << <<"is now unapplied", last.pre.applied[2]>> >>
    /\ applied = <<last.pre.applied[1]>>

-----------------------------------------------------------------------------
(* Where the walk and the scan end *)

\* the commits from commit c down its first parents to commit stop, stop
\* left out
RECURSIVE trail(_, _, _)
trail(s, c, stop) ==
    IF c = stop \/ parent_ids(s, c) = <<>> THEN {}
    ELSE {c} \cup trail(s, get_parent_commit(s, c), stop)

\* sequence q holds no element twice
no_repeat(q) == \A i, j \in DOMAIN q : q[i] = q[j] => i = j

\* C19: the walk of auto repair ends, and it ends at a commit whose parent
\* count is not 1 (a merge or a root) or at the recorded base, having
\* classified only commits of the first-parent trail above that commit, each
\* at most once; the scan that follows ends after taking each ancestor of
\* that commit at most once, and nothing else.
C19_WalkAndScanEnd ==
    RepairRan =>
        LET s == last.pre
            stop == last.info.stop
        IN /\ Len(parent_ids(s, stop)) # 1 \/ stop = base(s)
           /\ stop \in ancestors(s, s.branch_head)
           /\ found_commits \cup Range(last.info.patchify)
                 \subseteq trail(s, s.branch_head, stop)
           /\ no_repeat(last.info.found) /\ no_repeat(last.info.patchify)
           /\ found_commits \cap Range(last.info.patchify) = {}
           /\ no_repeat(last.info.visited)
           /\ Range(last.info.visited) \subseteq ancestors(s, stop)
           /\ Len(last.info.visited) <= Len(s.commits)

\* the walk ended at the base, a commit with one parent, after a patch and a
\* plain commit
C19_Witness ==
    /\ RepairRan
    /\ last.info.stop = base(last.pre)
    /\ Len(parent_ids(last.pre, last.info.stop)) = 1
    /\ last.info.found # <<>>
    /\ last.info.patchify # <<>>

-----------------------------------------------------------------------------
(* One transaction for each command *)

\* the reflog label the last command gives to its transaction
expected_label ==
    IF last.op = "repair" THEN "repair"
    ELSE IF last.op = "repair --reset" THEN "repair-rewind"
    ELSE IF last.args.annotate = "" THEN <<"spill", SpilledPatch>>
    ELSE <<"spill", SpilledPatch, last.args.annotate>>

\* C20: a successful auto repair, a successful reset repair of a stack whose
\* head is off the branch head and a successful spill each write exactly one
\* stack-state commit, with the reflog label "repair", "repair-rewind" or
\* "spill <P>" (with the annotation after it when one is given); no command
\* writes more than one, and the stack-state commits written before stay.
C20_OneTransaction ==
    CommandRan =>
        /\ Len(reflog) \in {Len(last.pre.reflog), Len(last.pre.reflog) + 1}
        /\ SubSeq(reflog, 1, Len(last.pre.reflog)) = last.pre.reflog
        /\ (/\ last.result = "ok"
            /\ last.op = "repair --reset" => last.pre.branch_head # last.pre.head)
              => reflog = Append(last.pre.reflog, expected_label)

\* a spill with an annotation went through
C20_Witness ==
    /\ SpillSucceeded
    /\ last.args.annotate # ""
    /\ reflog[Len(reflog)] = <<"spill", SpilledPatch, last.args.annotate>>
    /\ Len(reflog) = Len(last.pre.reflog) + 1

-----------------------------------------------------------------------------
(* Which commits the walk promotes *)

\* a patch of the stack before the last command is bound to commit c
known(c) == \E pn \in Range(all_patches(last.pre)) :
               get_patch_commit_id(last.pre, pn) = c

\* the commits the last auto repair walked over, the commit it stopped at
\* left out
walked == trail(last.pre, last.pre.branch_head, last.info.stop)

\* C22: auto repair promotes a commit of the trail that is no patch if and
\* only if below it on the trail, before the commit the walk stops at, there
\* is a commit of a patch, or the walk stops at the recorded base; it
\* promotes nothing else, and hands the promoted commits to new_applied
\* oldest first.
C22_PromotedIffPatchOrBaseBelow ==
    RepairRan =>
        /\ Range(last.info.patchify) =
              {c \in walked :
                  /\ ~known(c)
                  /\ \/ last.info.stop = base(last.pre)
                     \/ \E d \in walked : d \in below(last.pre, c) /\ known(d)}
        /\ \A i, j \in DOMAIN last.info.patchify :
              i < j => last.info.patchify[i] \in below(last.pre, last.info.patchify[j])
        /\ last.result = "ok" =>
              \A i \in DOMAIN last.info.patchify :
                  patch_commit[applied[Len(last.info.found) + i]] = last.info.patchify[i]

\* two commits promoted in one run, the older below a patch found and down
\* to the base, the newer above that patch
C22_Witness ==
    /\ RepairSucceeded
    /\ Len(last.info.patchify) = 2
    /\ \E pn \in Range(last.info.found) :
          /\ last.info.patchify[1] \in below(last.pre, get_patch_commit_id(last.pre, pn))
          /\ get_patch_commit_id(last.pre, pn) \in below(last.pre, last.info.patchify[2])
    /\ last.info.stop = base(last.pre)

-----------------------------------------------------------------------------
(* When the scan runs *)

\* C23: the scan and its warning occur only when the walk of auto repair
\* stopped at a merge commit: when it stopped at the recorded base or at a
\* root commit, no scan is done and no warning is printed.
C23_ScanOnlyAtMerge ==
    (RepairRan /\ ~StoppedAtMerge) =>
        /\ ~last.info.scanned
        /\ last.info.visited = <<>>
        /\ merge_warnings = <<>>

-----------------------------------------------------------------------------
(* generate_and_edit_patch_id (src/src/nl_extensions.rs) *)
(* Here a patch name is the string itself, a sequence of characters. *)

\* the applied lists tried hold at most this many patches
MaxApplied == 2

\* the string s as a sequence of characters is written <<"a", "b", ..>>
DEFAULT_PATCH_PREFIX == <<"m", "i", "s", "c">>

DEFAULT_PATCH_ID_CHARSET ==
    <<"0", "1", "2", "3", "4", "5", "6", "7", "8", "9",
      "a", "b", "c", "d", "e", "f", "g", "h", "i", "j", "k", "l", "m",
      "n", "o", "p", "q", "r", "s", "t", "u", "v", "w", "x", "y", "z">>

\* patch_name.find("@"): the position of the first '@', 0 when there is none
find_at(patch_name) ==
    IF "@" \notin Range(patch_name) THEN 0
    ELSE CHOOSE i \in DOMAIN patch_name :
            /\ patch_name[i] = "@"
            /\ \A j \in 1..(i - 1) : patch_name[j] # "@"

\* the position of the last '@', 0 when there is none
find_last_at(patch_name) ==
    IF "@" \notin Range(patch_name) THEN 0
    ELSE CHOOSE i \in DOMAIN patch_name :
            /\ patch_name[i] = "@"
            /\ \A j \in (i + 1)..Len(patch_name) : patch_name[j] # "@"

\* the prefix cut at the last '@' of the name
parse_patch_prefix_at_last(patch_name) ==
    IF find_last_at(patch_name) # 0
    THEN [some |-> TRUE, value |-> SubSeq(patch_name, 1, find_last_at(patch_name) - 1)]
    ELSE [some |-> FALSE, value |-> <<>>]

\* Some(the part before the first '@') or None
parse_patch_prefix_from_patch_name(patch_name) ==
    IF find_at(patch_name) # 0
    THEN [some |-> TRUE, value |-> SubSeq(patch_name, 1, find_at(patch_name) - 1)]
    ELSE [some |-> FALSE, value |-> <<>>]

\* patch_prefix: parsed from the last applied patch, else the default
patch_prefix(applied_names) ==
    LET parsed == IF applied_names = <<>> THEN [some |-> FALSE, value |-> <<>>]
                  ELSE parse_patch_prefix_from_patch_name(
                           applied_names[Len(applied_names)])
    IN IF parsed.some THEN parsed.value ELSE DEFAULT_PATCH_PREFIX

\* inquire_ask(prompt, Some(default)): on a terminal the text the user
\* submits (the default for an empty submission) or the error of a
\* cancelled prompt; without a terminal the default.
inquire_ask(tty, typed, cancelled, default) ==
    IF tty
    THEN IF cancelled THEN [ok |-> FALSE, value |-> <<>>]
         ELSE [ok |-> TRUE, value |-> IF typed = <<>> THEN default ELSE typed]
    ELSE [ok |-> TRUE, value |-> default]

\* the random suffix: the characters of the charset at the positions drawn
random_id_suffix(picks) == [i \in 1..Len(picks) |-> DEFAULT_PATCH_ID_CHARSET[picks[i]]]

\* PatchName::from_str: a patch name is a non-empty printable token
patch_name_from_str(str) ==
    IF str # <<>> /\ " " \notin Range(str)
    THEN [ok |-> TRUE, name |-> str]
    ELSE [ok |-> FALSE, name |-> None]

\* generate_and_edit_patch_id(stack)
generate_and_edit_patch_id(applied_names, tty, typed, cancelled, picks) ==
    LET default == patch_prefix(applied_names)
        asked == inquire_ask(tty, typed, cancelled, default)
        patch_prefix_selected == asked.value
        made == patch_name_from_str(patch_prefix_selected \o <<"@">>
                                        \o random_id_suffix(picks))
        none == [default |-> default, selected |-> patch_prefix_selected,
                 name |-> None]
    IN IF ~asked.ok THEN [result |-> "PromptError"] @@ none
       ELSE IF patch_prefix_selected = <<>>
            THEN [result |-> "patch prefix cannot be empty"] @@ none
       ELSE IF ~made.ok THEN [result |-> "InvalidPatchName"] @@ none
       ELSE [result |-> "ok", default |-> default,
             selected |-> patch_prefix_selected, name |-> made.name]

\* The names of the applied patches tried: without '@', with one, with two,
\* and with nothing before the '@'.
PatchIdNames ==
    { <<"f", "i", "x">>,
      <<"u", "i", "@", "k", "3">>,
      <<"a", "@", "b", "@", "c">>,
      <<"@", "z">> }

\* the texts the user submits: nothing, a prefix, a prefix with a blank
TypedPrefixes == { <<>>, <<"d", "b">>, <<"n", " ", "w">> }

\* the draws of five positions in the charset
SuffixPicks ==
    { <<1, 1, 1, 1, 1>>, <<36, 36, 36, 36, 36>>, <<11, 2, 36, 1, 24>> }

RECURSIVE SeqsUpTo(_, _)
SeqsUpTo(S, n) ==
    IF n = 0 THEN {<<>>}
    ELSE SeqsUpTo(S, n - 1)
            \cup {Append(q, x) : q \in {r \in SeqsUpTo(S, n - 1) : Len(r) = n - 1},
                                 x \in S}

\* a linear history of a root, a base and n commits above it
PatchIdCommits(n) ==
    [i \in 1..(n + 2) |->
        NewCommit(IF i = 1 THEN <<>> ELSE <<i - 1>>, TreeOf(i % 2, 0), "alice", i, "p")]

\* A stack whose applied patches have names of PatchIdNames, each on a commit
\* of a linear history.
InitPatchId ==
    /\ applied \in {q \in SeqsUpTo(PatchIdNames, MaxApplied) : no_repeat(q)}
    /\ commits = PatchIdCommits(Len(applied))
    /\ unapplied = <<>> /\ hidden = <<>>
    /\ patch_commit = [pn \in Range(applied) |->
                          2 + CHOOSE i \in DOMAIN applied : applied[i] = pn]
    /\ head = 2 + Len(applied)
    /\ branch_head = head
    /\ initialized = TRUE
    /\ reflog = <<>>
    /\ protected = FALSE /\ wd = "clean"
    /\ index = commits[head].tree
    /\ worktree = index
    /\ last = [op |-> "init", result |-> "ok"]

\* a command that names its patch with generate_and_edit_patch_id asks for
\* the prefix
run_generate_and_edit_patch_id ==
    /\ \E tty \in BOOLEAN, cancelled \in BOOLEAN,
          typed \in TypedPrefixes, picks \in SuffixPicks :
          /\ ~tty => (~cancelled /\ typed = <<>>)
          /\ cancelled => typed = <<>>
          /\ LET r == generate_and_edit_patch_id(applied, tty, typed, cancelled, picks)
             IN last' = [op |-> "patch-id", result |-> r.result, pre |-> St,
                         tty |-> tty, typed |-> typed, picks |-> picks, info |-> r]
    /\ UNCHANGED <<commits, branch_head, applied, unapplied, hidden, patch_commit,
                   head, initialized, reflog, protected, wd, index, worktree>>

NextPatchId == run_generate_and_edit_patch_id

SpecPatchId == InitPatchId /\ [][NextPatchId]_vars

-----------------------------------------------------------------------------
(* Properties of generate_and_edit_patch_id *)

PatchIdAsked == last.op = "patch-id"

\* the characters 0-9 and a-z
IdChars ==
    {"0", "1", "2", "3", "4", "5", "6", "7", "8", "9"}
    \cup {"a", "b", "c", "d", "e", "f", "g", "h", "i", "j", "k", "l", "m",
          "n", "o", "p", "q", "r", "s", "t", "u", "v", "w", "x", "y", "z"}

\* string p is the part of string str before its first '@'
before_first_at(p, str) ==
    /\ "@" \notin Range(p)
    /\ Len(str) > Len(p)
    /\ SubSeq(str, 1, Len(p) + 1) = p \o <<"@">>

\* C21: the prefix generate_and_edit_patch_id proposes is the part before the
\* first '@' of the name of the last applied patch when that name has an
\* '@', and "misc" when no patch is applied or the name has none; a name it
\* returns is the selected prefix, an '@' and five characters of 0-9a-z; an
\* empty selected prefix gives an error and no name.
C21_PatchIdShape ==
    PatchIdAsked =>
        LET names == last.pre.applied
            top == names[Len(names)]
            r == last.info
        IN /\ (names = <<>> \/ "@" \notin Range(top)) =>
                 r.default = <<"m", "i", "s", "c">>
           /\ (names # <<>> /\ "@" \in Range(top)) => before_first_at(r.default, top)
           /\ last.result = "ok" =>
                 /\ Len(r.name) = Len(r.selected) + 6
                 /\ SubSeq(r.name, 1, Len(r.selected) + 1) = r.selected \o <<"@">>
                 /\ \A i \in (Len(r.selected) + 2)..Len(r.name) : r.name[i] \in IdChars
           /\ r.selected = <<>> => last.result # "ok" /\ r.name = None

\* the last applied patch has two '@' in its name, the user took the prefix
\* proposed and a name was made
C21_Witness ==
    /\ PatchIdAsked /\ last.result = "ok"
    /\ last.pre.applied # <<>>
    /\ Cardinality({i \in DOMAIN last.pre.applied[Len(last.pre.applied)] :
                       last.pre.applied[Len(last.pre.applied)][i] = "@"}) = 2
    /\ last.info.selected = last.info.default
    /\ last.info.name # None

====
